---- MODULE Spec2Model ----
(***************************************************************************)
(* A state-machine model of SIFT.cpp: the detection pipeline               *)
(* (findSiftInterestPoint: buildGaussianPyramid, buildDogPyr,              *)
(* getScaleSpaceExtrema with isExtrema and cleanPoints,                    *)
(* computeOrientationHist with buildHistogram and histogramMax) and        *)
(* computeDescriptors, on one SIFT instance.                               *)
(*                                                                         *)
(* Pixels are integers (a float pixel is the integer times a fixed scale). *)
(* GaussianBlur is a library call: it keeps the size of its input, and the *)
(* values it produces are not computed here, so the content of the         *)
(* difference pyramid is drawn from a family of images (a flat background  *)
(* with up to MaxPeaks isolated peaks).                                    *)
(*                                                                         *)
(* Angles: atan2f results are kept in tenths of a degree (PI is 1800), and *)
(* a float result of rad2deg is representable every FloatUlp tenths: the   *)
(* float grid near 360 (spacing 2^-15 degree) at a coarser scale.          *)
(***************************************************************************)
EXTENDS Integers, Sequences, FiniteSets, TLC

VARIABLES
    pc,                  \* position inside findSiftInterestPoint, or "idle"
    call,                \* number of findSiftInterestPoint calls started
    image,               \* [rows, cols] of the image of the current call
    nOctaves,            \* argument of the current call
    nIntervals,          \* argument of the current call
    gauss_pyr,           \* vector<vector<Mat>> pyr (sizes only)
    dog_pyr,             \* vector<vector<Mat>> dog_pyr (sizes and pixels)
    keypoints,           \* the caller's vector<KeyPoint> of the current call
    first,               \* keypoints.size() when getScaleSpaceExtrema began
    scanned,             \* history: keypoints as getScaleSpaceExtrema left it
    z,                   \* loop index of computeOrientationHist
    tempImage,           \* tempImage of buildGaussianPyramid (size only)
    keypointsGradients,  \* member of the SIFT instance
    descriptors,         \* what computeDescriptors returned last
    cleaned,             \* history: the cleanPoints calls of the last scan
    oob,                 \* history: some pixel read was outside its image
    ex,                  \* isExtrema on one 3x3x3 block
    cp,                  \* cleanPoints on one 3x3 neighbourhood
    oh                   \* the orientation of one gradient patch

vars == <<pc, call, image, nOctaves, nIntervals, gauss_pyr, dog_pyr, keypoints,
          first, scanned, z, tempImage, keypointsGradients, descriptors, cleaned,
          oob, ex, cp, oh>>

pipeVars == <<pc, call, image, nOctaves, nIntervals, gauss_pyr, dog_pyr,
              keypoints, first, scanned, z, tempImage, keypointsGradients,
              descriptors, cleaned, oob>>

(***************************************************************************)
(* Bounds of the model.                                                    *)
(***************************************************************************)
MaxCalls == 2
MaxDim == 8
MaxOctaves == 2
MaxIntervals == 1
MaxPeaks == 2

(***************************************************************************)
(* Constants of SIFT.h (macros and default arguments).                     *)
(***************************************************************************)
SIFT_IMG_BORDER == 1
SIFT_HIST_BOREDER == 2
DefaultCurvThr == 10
DefaultContThr == 1
DefaultDtrThr == 0

(***************************************************************************)
(* Constants of SIFT.cpp and of the number formats.                        *)
(***************************************************************************)
OrientRange == 10
OrientMaximum == 360
DescRange == 45
BlockSize == 4
DefaultAngle == 0 - 1
PI == 1800
FloatUlp == 10
Background == 0
PeakValue == 2

Abs(x) == IF x < 0 THEN 0 - x ELSE x

(***************************************************************************)
(* cv::Mat: [rows, cols, data], data[row][col] for 0 <= row < rows and     *)
(* 0 <= col < cols.                                                        *)
(***************************************************************************)
InMat(img, row, col) == row >= 0 /\ row < img.rows /\ col >= 0 /\ col < img.cols

\* Mat::at<float>(row, col): no bounds check in a release build; a read
\* outside the image yields whatever lies there (junk).
at(img, row, col, junk) == IF InMat(img, row, col) THEN img.data[row][col] ELSE junk

\* A Mat of the given size whose pixels are Background but for the peaks.
MatOf(rows, cols, pk) ==
    [rows |-> rows, cols |-> cols,
     data |-> [r \in 0..(rows - 1) |-> [c \in 0..(cols - 1) |->
                 IF <<r, c>> \in pk THEN PeakValue ELSE Background]]]

(***************************************************************************)
(* SIFT::isExtrema.  oct is one octave of the difference pyramid; image j  *)
(* of the octave is oct[j + 1].                                            *)
(***************************************************************************)
Offsets == {0 - 1, 0, 1}

isExtrema(oct, interval, r, c) ==
    LET intensity == at(oct[interval + 1], r, c, 0)
        nb(i, j, k) == at(oct[interval + i + 1], r + j, c + k, 0)
    IN IF intensity > 0
       THEN ~ \E i \in Offsets, j \in Offsets, k \in Offsets :
                intensity <= nb(i, j, k) /\ (j # 0 \/ k # 0)
       ELSE ~ \E i \in Offsets, j \in Offsets, k \in Offsets :
                intensity >= nb(i, j, k) /\ (j # 0 \/ k # 0)

(***************************************************************************)
(* SIFT::cleanPoints.  position is a cv::Point [x, y]; image.at(position)  *)
(* reads row y, column x.  The float quotient trace * trace / deter is     *)
(* kept as its kind: "nan" (0 / 0), "inf" (a positive number / 0) or       *)
(* "num".  The result records, beside the returned value, what the call    *)
(* did: whether the division ran and by what, the pixel the contrast test  *)
(* read, the pixel the differences are centred on, and the reads.          *)
(***************************************************************************)
CurvatureKind(trace, deter) ==
    IF deter # 0 THEN "num" ELSE IF trace * trace = 0 THEN "nan" ELSE "inf"

\* curvature > curv_thr, for curvature = trace * trace / deter in IEEE floats.
CurvatureAbove(trace, deter, curv_thr) ==
    CASE CurvatureKind(trace, deter) = "nan" -> FALSE
      [] CurvatureKind(trace, deter) = "inf" -> TRUE
      [] OTHER -> IF deter > 0 THEN trace * trace > curv_thr * deter
                               ELSE trace * trace < curv_thr * deter

HessianReads(rx, ry) ==
    {<<rx + dr, ry + dc>> : dr \in Offsets, dc \in Offsets}

cleanPoints(position, img, curv_thr, cont_thr, dtr_thr, junk) ==
    LET value == at(img, position.y, position.x, junk)
        rx == position.x
        ry == position.y
        fxx == at(img, rx - 1, ry, junk) + at(img, rx + 1, ry, junk)
                 - 2 * at(img, rx, ry, junk)
        fyy == at(img, rx, ry - 1, junk) + at(img, rx, ry + 1, junk)
                 - 2 * at(img, rx, ry, junk)
        fxy == at(img, rx - 1, ry - 1, junk) + at(img, rx + 1, ry + 1, junk)
                 - at(img, rx - 1, ry + 1, junk) - at(img, rx + 1, ry - 1, junk)
        trace == fxx + fyy
        deter == (fxx * fyy) - (fxy * fxy)
    IN IF Abs(value) < cont_thr
       THEN [result |-> FALSE, hessian |-> FALSE, divided |-> FALSE,
             deter |-> 0, kind |-> "none",
             contrastAt |-> <<position.y, position.x>>,
             centre |-> <<position.y, position.x>>,
             reads |-> {<<position.y, position.x>>}]
       ELSE [result |-> ~ (deter < dtr_thr \/ CurvatureAbove(trace, deter, curv_thr)),
             hessian |-> TRUE, divided |-> TRUE,
             deter |-> deter, kind |-> CurvatureKind(trace, deter),
             contrastAt |-> <<position.y, position.x>>,
             centre |-> <<rx, ry>>,
             reads |-> {<<position.y, position.x>>} \cup HessianReads(rx, ry)]

(***************************************************************************)
(* atan2f, in tenths of a degree, for differences of equal magnitude or    *)
(* zero (the pixels of the model take two values).                         *)
(***************************************************************************)
atan2f(dy, dx) ==
    CASE dy = 0 /\ dx >= 0 -> 0
      [] dy = 0 /\ dx < 0  -> PI
      [] dy > 0 /\ dx = 0  -> PI \div 2
      [] dy < 0 /\ dx = 0  -> 0 - (PI \div 2)
      [] dy > 0 /\ dx > 0  -> PI \div 4
      [] dy > 0 /\ dx < 0  -> 3 * (PI \div 4)
      [] dy < 0 /\ dx > 0  -> 0 - (PI \div 4)
      [] OTHER             -> 0 - (3 * (PI \div 4))

\* The float nearest to x (x >= 0, in tenths of a degree).
FloatRound(x) == ((2 * x + FloatUlp) \div (2 * FloatUlp)) * FloatUlp

(***************************************************************************)
(* SIFT::rad2deg: float rad; rad += 2 * PI when negative; rad *= 360 /     *)
(* (2 * PI), stored back in the float.  The result is in whole degrees.    *)
(***************************************************************************)
rad2deg(rad) ==
    LET wrapped == IF rad < 0 THEN rad + 2 * PI ELSE rad
    IN FloatRound(wrapped) \div FloatUlp

(***************************************************************************)
(* SIFT::buildHistogram over the cells of a matrix (a function from cells  *)
(* to angles).  histo has maximum / range bins; a cell whose index is not  *)
(* below that writes past the end of histo.                                *)
(***************************************************************************)
HistoSize(range, maximum) == maximum \div range

BinOf(angle, range) == angle \div range

buildHistogram(matrix, range, maximum) ==
    [b \in 0..(HistoSize(range, maximum) - 1) |->
        Cardinality({cell \in DOMAIN matrix : BinOf(matrix[cell], range) = b})]

HistogramOverflow(matrix, range, maximum) ==
    \E cell \in DOMAIN matrix :
        BinOf(matrix[cell], range) \notin 0..(HistoSize(range, maximum) - 1)

(***************************************************************************)
(* SIFT::histogramMax: indexMax after the loop.                            *)
(***************************************************************************)
NoBins(histogram) == Cardinality(DOMAIN histogram)

RECURSIVE histogramMaxLoop(_, _, _, _)
histogramMaxLoop(histogram, i, maximum, indexMax) ==
    IF i > NoBins(histogram) - 1 THEN indexMax
    ELSE IF maximum < histogram[i]
         THEN histogramMaxLoop(histogram, i + 1, histogram[i], i)
         ELSE histogramMaxLoop(histogram, i + 1, maximum, indexMax)

histogramMax(histogram) == histogramMaxLoop(histogram, 0, histogram[0], 0)

(***************************************************************************)
(* SIFT::downSample: every second column, then every second row.           *)
(***************************************************************************)
\* downSample keeping the last column and row of an odd size.
downSampleCeil(img) == [rows |-> (img.rows + 1) \div 2, cols |-> (img.cols + 1) \div 2]

downSample(img) == [rows |-> img.rows \div 2, cols |-> img.cols \div 2]

(***************************************************************************)
(* SIFT::getScaleSpaceExtrema: the four nested loops, innermost first.     *)
(* dog[i + 1][j + 1] is dog_pyr[i][j].                                     *)
(***************************************************************************)
KeyPoint(x, y, size, angle, octave) ==
    [x |-> x, y |-> y, size |-> size, angle |-> angle, octave |-> octave]

Point(x, y) == [x |-> x, y |-> y]

Accepted(dog, i, j, r, c, junk) ==
    /\ isExtrema(dog[i + 1], j, r, c)
    /\ cleanPoints(Point(c, r), dog[i + 1][j + 1], DefaultCurvThr, DefaultContThr,
                   DefaultDtrThr, junk).result

\* ColLoop putting each keypoint at the front of the vector.
RECURSIVE ColLoopPushFront(_, _, _, _, _, _, _)
ColLoopPushFront(dog, i, j, r, c, junk, kps) ==
    IF ~ (c < dog[i + 1][1].cols - SIFT_IMG_BORDER) THEN kps
    ELSE ColLoopPushFront(dog, i, j, r, c + 1, junk,
                          IF Accepted(dog, i, j, r, c, junk)
                          THEN <<KeyPoint(c, r, j, DefaultAngle, i)>> \o kps
                          ELSE kps)

RECURSIVE ColLoop(_, _, _, _, _, _, _)
ColLoop(dog, i, j, r, c, junk, kps) ==
    IF ~ (c < dog[i + 1][1].cols - SIFT_IMG_BORDER) THEN kps
    ELSE ColLoop(dog, i, j, r, c + 1, junk,
                 IF Accepted(dog, i, j, r, c, junk)
                 THEN Append(kps, KeyPoint(c, r, j, DefaultAngle, i))
                 ELSE kps)

RECURSIVE RowLoop(_, _, _, _, _, _)
RowLoop(dog, i, j, r, junk, kps) ==
    IF ~ (r < dog[i + 1][1].rows - SIFT_IMG_BORDER) THEN kps
    ELSE RowLoop(dog, i, j, r + 1, junk,
                 ColLoop(dog, i, j, r, SIFT_IMG_BORDER, junk, kps))

RECURSIVE IntervalLoop(_, _, _, _, _, _)
IntervalLoop(dog, i, j, intervals, junk, kps) ==
    IF ~ (j <= intervals) THEN kps
    ELSE IntervalLoop(dog, i, j + 1, intervals, junk,
                      RowLoop(dog, i, j, SIFT_IMG_BORDER, junk, kps))

RECURSIVE OctaveLoop(_, _, _, _, _, _)
OctaveLoop(dog, i, octaves, intervals, junk, kps) ==
    IF ~ (i < octaves) THEN kps
    ELSE OctaveLoop(dog, i + 1, octaves, intervals, junk,
                    IntervalLoop(dog, i, 1, intervals, junk, kps))

\* The pixels the loops visit.
Scanned(dog, intervals) ==
    {q \in (0..(Len(dog) - 1)) \X (1..intervals) \X (0..MaxDim) \X (0..MaxDim) :
        /\ q[3] >= SIFT_IMG_BORDER /\ q[3] < dog[q[1] + 1][1].rows - SIFT_IMG_BORDER
        /\ q[4] >= SIFT_IMG_BORDER /\ q[4] < dog[q[1] + 1][1].cols - SIFT_IMG_BORDER}

\* History of a scan: what each cleanPoints call of the scan did.
CleanCalls(dog, intervals, junk) ==
    {[octave |-> q[1], interval |-> q[2], r |-> q[3], c |-> q[4],
      rows |-> dog[q[1] + 1][q[2] + 1].rows, cols |-> dog[q[1] + 1][q[2] + 1].cols,
      did |-> cleanPoints(Point(q[4], q[3]), dog[q[1] + 1][q[2] + 1], DefaultCurvThr,
                          DefaultContThr, DefaultDtrThr, junk)] :
        q \in {s \in Scanned(dog, intervals) : isExtrema(dog[s[1] + 1], s[2], s[3], s[4])}}

ReadsOutside(reads, rows, cols) ==
    \E a \in reads : ~ (a[1] >= 0 /\ a[1] < rows /\ a[2] >= 0 /\ a[2] < cols)

(***************************************************************************)
(* SIFT::computeOrientationHist, the body of its loop for one keypoint.    *)
(***************************************************************************)
PatchSide == SIFT_HIST_BOREDER * 2

PatchCells == (0..(PatchSide - 1)) \X (0..(PatchSide - 1))

\* WindowFits without its two tests on the rows.
WindowFitsColumnsOnly(keyx, keyy, img) ==
    ~ (\/ keyx - SIFT_HIST_BOREDER - 1 < 0
       \/ keyx + SIFT_HIST_BOREDER + 1 > img.cols)

WindowFits(keyx, keyy, img) ==
    ~ (\/ keyx - SIFT_HIST_BOREDER - 1 < 0
       \/ keyx + SIFT_HIST_BOREDER + 1 > img.cols
       \/ keyy - SIFT_HIST_BOREDER - 1 < 0
       \/ keyy + SIFT_HIST_BOREDER + 1 > img.rows)

Gradient(img, keyx, keyy, i, j, junk) ==
    LET diffx == at(img, keyx + i + 1 - SIFT_HIST_BOREDER, keyy - SIFT_HIST_BOREDER + j, junk)
                 - at(img, keyx + i - 1 - SIFT_HIST_BOREDER, keyy - SIFT_HIST_BOREDER + j, junk)
        diffy == at(img, keyx - SIFT_HIST_BOREDER + i, keyy + j + 1 - SIFT_HIST_BOREDER, junk)
                 - at(img, keyx - SIFT_HIST_BOREDER + i, keyy + j - 1 - SIFT_HIST_BOREDER, junk)
    IN rad2deg(atan2f(diffy, diffx))

tempGradient(img, keyx, keyy, junk) ==
    [cell \in PatchCells |-> Gradient(img, keyx, keyy, cell[1], cell[2], junk)]

PatchReads(keyx, keyy) ==
    UNION {{<<keyx + cell[1] + 1 - SIFT_HIST_BOREDER, keyy - SIFT_HIST_BOREDER + cell[2]>>,
            <<keyx + cell[1] - 1 - SIFT_HIST_BOREDER, keyy - SIFT_HIST_BOREDER + cell[2]>>,
            <<keyx - SIFT_HIST_BOREDER + cell[1], keyy + cell[2] + 1 - SIFT_HIST_BOREDER>>,
            <<keyx - SIFT_HIST_BOREDER + cell[1], keyy + cell[2] - 1 - SIFT_HIST_BOREDER>>} :
           cell \in PatchCells}

angleOrientation(patch) ==
    histogramMax(buildHistogram(patch, OrientRange, OrientMaximum)) * OrientRange
        + (OrientRange \div 2)

(***************************************************************************)
(* SIFT::computeDescriptors for one patch: the 4x4 blocks, xBlock outer    *)
(* and yBlock inner, each block's histogram of 45-degree bins.             *)
(***************************************************************************)
blockMatrix(temp, xBlock, yBlock) ==
    [cell \in (0..(BlockSize - 1)) \X (0..(BlockSize - 1)) |->
        temp[<<xBlock + cell[1], yBlock + cell[2]>>]]

RECURSIVE BlockLoop(_, _, _, _)
BlockLoop(temp, xBlock, yBlock, singleDescriptor) ==
    IF ~ (xBlock < PatchSide) THEN singleDescriptor
    ELSE IF ~ (yBlock < PatchSide) THEN BlockLoop(temp, xBlock + BlockSize, 0, singleDescriptor)
    ELSE BlockLoop(temp, xBlock, yBlock + BlockSize,
                   Append(singleDescriptor,
                          buildHistogram(blockMatrix(temp, xBlock, yBlock),
                                         DescRange, OrientMaximum)))

singleDescriptorOf(temp) == BlockLoop(temp, 0, 0, <<>>)

(***************************************************************************)
(* The pipeline on one SIFT instance.                                      *)
(***************************************************************************)
Off == [phase |-> "off"]

NoImage == [rows |-> 0, cols |-> 0]

PipeInit ==
    /\ pc = "idle"
    /\ call = 0
    /\ image = NoImage
    /\ nOctaves = 0
    /\ nIntervals = 0
    /\ gauss_pyr = <<>>
    /\ dog_pyr = <<>>
    /\ keypoints = <<>>
    /\ first = 0
    /\ scanned = <<>>
    /\ z = 0
    /\ tempImage = NoImage
    /\ keypointsGradients = <<>>
    /\ descriptors = [fresh |-> FALSE, list |-> <<>>]
    /\ cleaned = {}
    /\ oob = FALSE

Init ==
    /\ PipeInit
    /\ ex = Off
    /\ cp = Off
    /\ oh = Off

\* The sizes of the images the caller passes, and the pixel values of the model.
Dims == {1, MaxDim - 3, MaxDim - 2, MaxDim}

\* The <<row, column>> places a peak of the difference pyramid may take.
PeakSpots == {<<1, 1>>, <<1, 3>>, <<3, 3>>, <<3, MaxDim - 3>>}

Values == {Background, PeakValue}

Empty(img) == img.rows = 0 \/ img.cols = 0

\* findSiftInterestPoint, lines 15-21: a call on a non-empty image, with the
\* caller's vector: a new one, or the one of the previous call.
FindSiftInterestPoint(limit) ==
    /\ pc = "idle"
    /\ call < limit
    /\ \E rows \in Dims, cols \in Dims :
          /\ image' = [rows |-> rows, cols |-> cols]
          /\ tempImage' = [rows |-> rows, cols |-> cols]
    /\ nOctaves' \in 0..MaxOctaves
    /\ nIntervals' \in 0..MaxIntervals
    /\ \E reuse \in BOOLEAN : keypoints' = IF reuse THEN keypoints ELSE <<>>
    /\ call' = call + 1
    /\ gauss_pyr' = <<>>
    /\ dog_pyr' = <<>>
    /\ descriptors' = [fresh |-> FALSE, list |-> <<>>]
    /\ cleaned' = {}
    /\ oob' = FALSE
    /\ pc' = "pyramid"
    /\ UNCHANGED <<first, scanned, z, keypointsGradients, ex, cp, oh>>

\* buildGaussianPyramid, one pass of the loop over the octaves.  GaussianBlur
\* keeps the size of its input; on an empty image it throws or returns an
\* empty image, by the version of the library.
pyr_intervals(img, intervals) == [j \in 1..(intervals + 3) |-> img]

BuildGaussianPyramid ==
    /\ pc = "pyramid"
    /\ Len(gauss_pyr) < nOctaves
    /\ \/ /\ gauss_pyr' = Append(gauss_pyr, pyr_intervals(tempImage, nIntervals))
          /\ tempImage' = downSample(tempImage)
          /\ pc' = "pyramid"
       \/ /\ Empty(tempImage)
          /\ pc' = "error"
          /\ UNCHANGED <<gauss_pyr, tempImage>>
    /\ UNCHANGED <<call, image, nOctaves, nIntervals, dog_pyr, keypoints, first,
                   scanned, z, keypointsGradients, descriptors, cleaned, oob, ex, cp, oh>>

\* The peaks of the difference pyramid of a call: interior intervals only.
PeakCells(gauss) ==
    {q \in (0..(Len(gauss) - 1)) \X (1..(Len(gauss[1]) - 3)) \X (0..MaxDim) \X (0..MaxDim) :
        /\ <<q[3], q[4]>> \in PeakSpots
        /\ q[3] < gauss[q[1] + 1][1].rows
        /\ q[4] < gauss[q[1] + 1][1].cols}

RECURSIVE PeakSets(_, _)
PeakSets(n, cells) ==
    IF n = 0 THEN {{}}
    ELSE PeakSets(n - 1, cells)
           \cup {pk \cup {q} : pk \in PeakSets(n - 1, cells), q \in cells}

\* gauss_pyr[i][j] - gauss_pyr[i][j + 1]: an image of the size of its operands.
Subtract(a, b, pk) == MatOf(a.rows, a.cols, pk)

dog_intervals(gauss, i, intervals, peaks) ==
    [j \in 1..(intervals - 1) |->
        Subtract(gauss[i][j], gauss[i][j + 1],
                 {<<q[3], q[4]>> : q \in {p \in peaks : p[1] = i - 1 /\ p[2] = j - 1}})]

\* buildDogPyr.  gauss_pyr[0].size() on an empty pyramid is undefined: the
\* call crashes, or reads some size and builds nothing (no octave to loop on).
BuildDogPyr ==
    /\ pc = "pyramid"
    /\ Len(gauss_pyr) = nOctaves
    /\ \/ /\ gauss_pyr # <<>>
          /\ \E peaks \in PeakSets(MaxPeaks, PeakCells(gauss_pyr)) :
                dog_pyr' = [i \in 1..Len(gauss_pyr) |->
                              dog_intervals(gauss_pyr, i, Len(gauss_pyr[1]), peaks)]
          /\ pc' = "extrema"
       \/ /\ gauss_pyr = <<>>
          /\ dog_pyr' = <<>>
          /\ pc' = "extrema"
       \/ /\ gauss_pyr = <<>>
          /\ dog_pyr' = <<>>
          /\ pc' = "crashed"
    /\ UNCHANGED <<call, image, nOctaves, nIntervals, gauss_pyr, keypoints, first,
                   scanned, z, tempImage, keypointsGradients, descriptors, cleaned, oob, ex, cp, oh>>

\* getScaleSpaceExtrema.  dog_pyr[0].size() on an empty pyramid is undefined
\* in the same way.
GetScaleSpaceExtrema ==
    /\ pc = "extrema"
    /\ \/ /\ dog_pyr # <<>>
          /\ \E junk \in Values :
                LET intervals == Len(dog_pyr[1]) - 2
                    calls == CleanCalls(dog_pyr, intervals, junk)
                IN /\ keypoints' = OctaveLoop(dog_pyr, 0, Len(dog_pyr), intervals,
                                              junk, keypoints)
                   /\ cleaned' = calls
                   /\ oob' = \E e \in calls : ReadsOutside(e.did.reads, e.rows, e.cols)
          /\ pc' = "orient"
       \/ /\ dog_pyr = <<>>
          /\ pc' = "orient"
          /\ UNCHANGED <<keypoints, cleaned, oob>>
       \/ /\ dog_pyr = <<>>
          /\ pc' = "crashed"
          /\ UNCHANGED <<keypoints, cleaned, oob>>
    /\ first' = Len(keypoints)
    /\ scanned' = keypoints'
    /\ z' = 0
    /\ UNCHANGED <<call, image, nOctaves, nIntervals, gauss_pyr, dog_pyr, tempImage,
                   keypointsGradients, descriptors, ex, cp, oh>>

\* dog_pyr[keypoints[z].octave][keypoints[z].size] exists.
HasImage(kp) ==
    /\ kp.octave < Len(dog_pyr)
    /\ kp.size < Len(dog_pyr[kp.octave + 1])

\* computeOrientationHist, one pass of its loop.  A keypoint of an earlier
\* call may name an image the pyramid of this call does not have: the read is
\* undefined, the call crashes or finds a Mat header that fails the window test.
ComputeOrientationHist ==
    /\ pc = "orient"
    /\ z < Len(keypoints)
    /\ LET kp == keypoints[z + 1]
           img == dog_pyr[kp.octave + 1][kp.size + 1]
       IN \/ /\ HasImage(kp)
             /\ WindowFits(kp.x, kp.y, img)
             /\ \E junk \in Values :
                   LET patch == tempGradient(img, kp.x, kp.y, junk)
                   IN /\ keypointsGradients' =
                            Append(keypointsGradients,
                                   [src |-> [call |-> call, index |-> z + 1],
                                    angles |-> patch])
                      /\ keypoints' = [keypoints EXCEPT ![z + 1].angle =
                                                          angleOrientation(patch)]
             /\ oob' = (oob \/ ReadsOutside(PatchReads(kp.x, kp.y), img.rows, img.cols))
             /\ pc' = "orient"
          \/ /\ HasImage(kp)
             /\ ~ WindowFits(kp.x, kp.y, img)
             /\ pc' = "orient"
             /\ UNCHANGED <<keypoints, keypointsGradients, oob>>
          \/ /\ ~ HasImage(kp)
             /\ pc' = "orient"
             /\ oob' = TRUE
             /\ UNCHANGED <<keypoints, keypointsGradients>>
          \/ /\ ~ HasImage(kp)
             /\ pc' = "crashed"
             /\ oob' = TRUE
             /\ UNCHANGED <<keypoints, keypointsGradients>>
    /\ z' = z + 1
    /\ UNCHANGED <<call, image, nOctaves, nIntervals, gauss_pyr, dog_pyr, first,
                   scanned, tempImage, descriptors, cleaned, ex, cp, oh>>

\* findSiftInterestPoint returns: its arguments and its locals (pyr, dog_pyr)
\* are gone, the caller keeps its vector and the instance its patches.
Return ==
    /\ pc = "orient"
    /\ z = Len(keypoints)
    /\ pc' = "idle"
    /\ image' = NoImage
    /\ tempImage' = NoImage
    /\ nOctaves' = 0
    /\ nIntervals' = 0
    /\ gauss_pyr' = <<>>
    /\ dog_pyr' = <<>>
    /\ first' = 0
    /\ scanned' = <<>>
    /\ z' = 0
    /\ cleaned' = {}
    /\ oob' = FALSE
    /\ UNCHANGED <<call, keypoints, keypointsGradients, descriptors, ex, cp, oh>>

\* computeDescriptors: one descriptor per element of keypointsGradients.
ComputeDescriptors ==
    /\ pc = "idle"
    /\ call > 0
    /\ ~ descriptors.fresh
    /\ descriptors' =
          [fresh |-> TRUE,
           list |-> [points \in 1..Len(keypointsGradients) |->
                       [src |-> keypointsGradients[points].src,
                        singleDescriptor |->
                            singleDescriptorOf(keypointsGradients[points].angles)]]]
    /\ UNCHANGED <<pc, call, image, nOctaves, nIntervals, gauss_pyr, dog_pyr, keypoints,
                   first, scanned, z, tempImage, keypointsGradients, cleaned, oob,
                   ex, cp, oh>>

\* One call of findSiftInterestPoint on a new instance, then computeDescriptors.
Next ==
    \/ FindSiftInterestPoint(1)
    \/ BuildGaussianPyramid
    \/ BuildDogPyr
    \/ GetScaleSpaceExtrema
    \/ ComputeOrientationHist
    \/ Return
    \/ ComputeDescriptors

Spec == Init /\ [][Next]_vars

\* Up to MaxCalls calls on one instance.
NextCalls ==
    \/ FindSiftInterestPoint(MaxCalls)
    \/ BuildGaussianPyramid
    \/ BuildDogPyr
    \/ GetScaleSpaceExtrema
    \/ ComputeOrientationHist
    \/ Return
    \/ ComputeDescriptors

SpecCalls == Init /\ [][NextCalls]_vars

(***************************************************************************)
(* isExtrema on one 3x3x3 block: the centre of image 1 of an octave of     *)
(* three 3x3 images.  The block is flat but for its centre and one cell.   *)
(***************************************************************************)
ExValues == {0 - 2, 0 - 1, 0, 1, 2}

BlockCells == (0..2) \X (0..2) \X (0..2)

Centre == <<1, 1, 1>>

Block(base, v, q, a) ==
    [j \in 1..3 |->
        [rows |-> 3, cols |-> 3,
         data |-> [r \in 0..2 |-> [c \in 0..2 |->
                     IF <<j - 1, r, c>> = Centre THEN v
                     ELSE IF <<j - 1, r, c>> = q THEN a ELSE base]]]]

InitExtrema ==
    /\ PipeInit
    /\ cp = Off
    /\ oh = Off
    /\ \E base \in ExValues, v \in ExValues, q \in BlockCells \ {Centre}, a \in ExValues :
          ex = [phase |-> "input", oct |-> Block(base, v, q, a), result |-> FALSE]

IsExtremaCall ==
    /\ ex.phase = "input"
    /\ ex' = [ex EXCEPT !.phase = "done", !.result = isExtrema(ex.oct, 1, 1, 1)]
    /\ UNCHANGED <<pipeVars, cp, oh>>

NextExtrema == IsExtremaCall

SpecExtrema == InitExtrema /\ [][NextExtrema]_vars

(***************************************************************************)
(* cleanPoints on the centre of one 3x3 image, with its three thresholds.  *)
(***************************************************************************)
CrossValues == {0, 1, 2}

CornerValues == {0, 1}

IsCorner(r, c) == r # 1 /\ c # 1

Images3x3 ==
    {[rows |-> 3, cols |-> 3, data |-> d] :
        d \in {f \in [0..2 -> [0..2 -> CrossValues]] :
                 \A r \in 0..2, c \in 0..2 : IsCorner(r, c) => f[r][c] \in CornerValues}}

InitClean ==
    /\ PipeInit
    /\ ex = Off
    /\ oh = Off
    /\ \E img \in Images3x3, cont_thr \in {1, 2}, dtr_thr \in {0, 1} :
          cp = [phase |-> "input", img |-> img, curv_thr |-> DefaultCurvThr,
                cont_thr |-> cont_thr, dtr_thr |-> dtr_thr,
                did |-> [result |-> FALSE]]

CleanPointsCall ==
    /\ cp.phase = "input"
    /\ cp' = [cp EXCEPT !.phase = "done",
                        !.did = cleanPoints(Point(1, 1), cp.img, cp.curv_thr,
                                            cp.cont_thr, cp.dtr_thr, 0)]
    /\ UNCHANGED <<pipeVars, ex, oh>>

NextClean == CleanPointsCall

SpecClean == InitClean /\ [][NextClean]_vars

(***************************************************************************)
(* The orientation of one gradient patch (computeOrientationHist, lines    *)
(* 309-324), from the atan2f results of its pixels: the first n1 cells     *)
(* hold a, the next n2 hold b, the others c.                               *)
(***************************************************************************)
OrientRads == {0 - 1, 0, 100, 0 - 50}

PatchArea == PatchSide * PatchSide

CellNo(cell) == cell[1] * PatchSide + cell[2]

InitOrient ==
    /\ PipeInit
    /\ ex = Off
    /\ cp = Off
    /\ \E a \in OrientRads, b \in OrientRads, c \in OrientRads,
          n1 \in 0..PatchArea, n2 \in 0..PatchArea :
          /\ n1 + n2 <= PatchArea
          /\ oh = [phase |-> "input",
                   rads |-> [cell \in PatchCells |->
                               IF CellNo(cell) < n1 THEN a
                               ELSE IF CellNo(cell) < n1 + n2 THEN b ELSE c],
                   patch |-> <<>>, angle |-> DefaultAngle]

\* Lines 298-313: tempGradient.at<float>(i, j) = rad2deg(atan2f(diffy, diffx)).
OrientGradient ==
    /\ oh.phase = "input"
    /\ oh' = [oh EXCEPT !.phase = "patch",
                        !.patch = [cell \in PatchCells |-> rad2deg(oh.rads[cell])]]
    /\ UNCHANGED <<pipeVars, ex, cp>>

\* Lines 319-324.  histo[index]++ with index past the last bin is undefined:
\* the write lands beside the array and goes unnoticed, or it damages what
\* histogramMax then reads, or the call crashes.
OrientAssign ==
    /\ oh.phase = "patch"
    /\ \/ /\ oh' = [oh EXCEPT !.phase = "done", !.angle = angleOrientation(oh.patch)]
       \/ /\ HistogramOverflow(oh.patch, OrientRange, OrientMaximum)
          /\ \E indexMax \in 0..(HistoSize(OrientRange, OrientMaximum) - 1) :
                oh' = [oh EXCEPT !.phase = "done",
                                 !.angle = indexMax * OrientRange + (OrientRange \div 2)]
       \/ /\ HistogramOverflow(oh.patch, OrientRange, OrientMaximum)
          /\ oh' = [oh EXCEPT !.phase = "crashed"]
    /\ UNCHANGED <<pipeVars, ex, cp>>

NextOrient ==
    \/ OrientGradient
    \/ OrientAssign

SpecOrient == InitOrient /\ [][NextOrient]_vars

(***************************************************************************)
(* The claims.                                                             *)
(***************************************************************************)
CellOf(oct, q) == oct[q[1] + 1].data[q[2]][q[3]]

StrictExtremum26(oct) ==
    IF CellOf(oct, Centre) > 0
    THEN \A q \in BlockCells \ {Centre} : CellOf(oct, Centre) > CellOf(oct, q)
    ELSE \A q \in BlockCells \ {Centre} : CellOf(oct, Centre) < CellOf(oct, q)

\* C1: isExtrema returns true if and only if the centre is strictly greater
\* (centre > 0) or strictly less (centre <= 0) than every one of the 26 other
\* cells of its 3x3x3 block, the two cells at the same row and column in the
\* intervals below and above included.
C1_ExtremumOf26 ==
    ex.phase = "done" => (ex.result <=> StrictExtremum26(ex.oct))

\* The Hessian determinant at the centre of a 3x3 image.
DeterminantAtCentre(img) ==
    LET I(x, y) == img.data[x][y]
        fxx == I(0, 1) + I(2, 1) - 2 * I(1, 1)
        fyy == I(1, 0) + I(1, 2) - 2 * I(1, 1)
        fxy == I(0, 0) + I(2, 2) - I(0, 2) - I(2, 0)
    IN fxx * fyy - fxy * fxy

\* C2: cleanPoints returns false for every candidate whose Hessian
\* determinant is at or below dtr_thr, whatever its contrast, and never
\* divides by such a determinant.
C2_DeterminantFloor ==
    (cp.phase = "done" /\ DeterminantAtCentre(cp.img) <= cp.dtr_thr)
        => (~ cp.did.result /\ ~ cp.did.divided)

\* C3: for every candidate getScaleSpaceExtrema passes to cleanPoints, the
\* finite differences are centred on the pixel (row r, column c) that
\* isExtrema tested and whose value the contrast test read.
C3_OneAxisConvention ==
    \A e \in cleaned :
        /\ e.did.contrastAt = <<e.r, e.c>>
        /\ e.did.hessian => e.did.centre = <<e.r, e.c>>

NearEdge(kp, img) ==
    \/ kp.x < SIFT_HIST_BOREDER
    \/ kp.x > img.cols - 1 - SIFT_HIST_BOREDER
    \/ kp.y < SIFT_HIST_BOREDER
    \/ kp.y > img.rows - 1 - SIFT_HIST_BOREDER

ImageOf(kp) == dog_pyr[kp.octave + 1][kp.size + 1]

HasPatch(k) ==
    \E p \in 1..Len(keypointsGradients) :
        keypointsGradients[p].src = [call |-> call, index |-> k]

\* C4: in computeOrientationHist a keypoint within SIFT_HIST_BOREDER pixels
\* of an edge of its image gets no patch, keeps the orientation -1 it was
\* created with, and stays in the collection at its index.
C4_EdgeKeypointSkipped ==
    pc = "orient" =>
        /\ Len(keypoints) = Len(scanned)
        /\ \A k \in 1..z :
              (HasImage(keypoints[k]) /\ NearEdge(keypoints[k], ImageOf(keypoints[k])))
                  => /\ keypoints[k] = scanned[k]
                     /\ k > first => keypoints[k].angle = DefaultAngle
                     /\ ~ HasPatch(k)

C4_Witness ==
    /\ pc = "orient"
    /\ z = Len(keypoints)
    /\ \E k \in 1..z : /\ k > first
                       /\ NearEdge(keypoints[k], ImageOf(keypoints[k]))
    /\ \E k \in 1..z : HasPatch(k)

RECURSIVE OrientedFrom(_, _)
OrientedFrom(kps, k) ==
    IF k > Len(kps) THEN <<>>
    ELSE IF kps[k].angle # DefaultAngle THEN <<k>> \o OrientedFrom(kps, k + 1)
    ELSE OrientedFrom(kps, k + 1)

\* C5: after any sequence of findSiftInterestPoint calls, computeDescriptors
\* returns one descriptor per keypoint of the caller's collection that has an
\* orientation, the k-th built from the patch of the k-th such keypoint.
C5_DescriptorPerKeypoint ==
    descriptors.fresh =>
        LET oriented == OrientedFrom(keypoints, 1)
        IN /\ Len(descriptors.list) = Len(oriented)
           /\ \A n \in 1..Len(oriented) :
                 descriptors.list[n].src.index = oriented[n]

SameSize(a, b) == a.rows = b.rows /\ a.cols = b.cols

\* C6: for nOctaves >= 1 and nIntervals >= 1 the pyramid has nOctaves octaves
\* of nIntervals + 3 images of one size, the first the size of the image and
\* each next one half of it (rounded down) in both directions, and the
\* difference pyramid has nIntervals + 2 images of that size per octave.
C6_PyramidShape ==
    (pc \in {"extrema", "orient"} /\ nOctaves >= 1 /\ nIntervals >= 1) =>
        /\ Len(gauss_pyr) = nOctaves
        /\ Len(dog_pyr) = nOctaves
        /\ SameSize(gauss_pyr[1][1], image)
        /\ \A o \in 1..nOctaves :
              /\ Len(gauss_pyr[o]) = nIntervals + 3
              /\ Len(dog_pyr[o]) = nIntervals + 2
              /\ \A j \in 1..(nIntervals + 3) : SameSize(gauss_pyr[o][j], gauss_pyr[o][1])
              /\ \A j \in 1..(nIntervals + 2) : SameSize(dog_pyr[o][j], gauss_pyr[o][1])
              /\ o < nOctaves =>
                    /\ gauss_pyr[o + 1][1].rows = gauss_pyr[o][1].rows \div 2
                    /\ gauss_pyr[o + 1][1].cols = gauss_pyr[o][1].cols \div 2

C6_Witness ==
    /\ pc = "extrema"
    /\ nOctaves = 2
    /\ nIntervals = 1
    /\ image.rows = MaxDim - 3
    /\ image.cols = MaxDim
    /\ dog_pyr[2][3].rows = (MaxDim - 3) \div 2

RECURSIVE Halved(_, _)
Halved(n, times) == IF times = 0 THEN n ELSE Halved(n \div 2, times - 1)

Degenerate ==
    \/ nIntervals < 1
    \/ nOctaves < 1
    \/ \E o \in 0..(nOctaves - 1) : Halved(image.rows, o) = 0 \/ Halved(image.cols, o) = 0

\* C7: a call with nIntervals < 1, nOctaves < 1 or an image that halves to
\* nothing within nOctaves octaves ends in an error and never goes on into
\* buildDogPyr, getScaleSpaceExtrema or computeOrientationHist.
C7_FailFast ==
    (pc # "idle" /\ Degenerate) => pc \in {"pyramid", "error"}

FirstMaximum(histo) ==
    CHOOSE b \in DOMAIN histo :
        /\ \A b2 \in DOMAIN histo : histo[b2] <= histo[b]
        /\ \A b2 \in DOMAIN histo : b2 < b => histo[b2] < histo[b]

\* C8: every keypoint that gets a patch is given the orientation b * 10 + 5,
\* b the lowest bin of maximum count of the 36-bin histogram of the angles of
\* the patch, so an orientation in [0, 360).
C8_BinCentre ==
    /\ oh.phase # "crashed"
    /\ oh.phase = "done" =>
          /\ oh.angle = FirstMaximum(buildHistogram(oh.patch, OrientRange, OrientMaximum))
                          * OrientRange + (OrientRange \div 2)
          /\ oh.angle >= 0
          /\ oh.angle < OrientMaximum

Key(kp) == <<kp.octave, kp.size, kp.y, kp.x>>

LexLess(a, b) ==
    \E n \in 1..4 : a[n] < b[n] /\ \A m \in 1..(n - 1) : a[m] = b[m]

\* C9: the keypoints one getScaleSpaceExtrema call appends are in strictly
\* increasing order of (octave, interval, row, column), and
\* computeOrientationHist neither reorders nor removes them.
C9_ScanOrder ==
    pc = "orient" =>
        /\ \A k \in (first + 1)..(Len(scanned) - 1) :
              LexLess(Key(scanned[k]), Key(scanned[k + 1]))
        /\ Len(keypoints) = Len(scanned)
        /\ \A k \in 1..Len(scanned) : Key(keypoints[k]) = Key(scanned[k])

C9_Witness ==
    /\ pc = "orient"
    /\ z = Len(keypoints)
    /\ Len(keypoints) >= first + 2
    /\ \E k \in 1..z : keypoints[k].angle # DefaultAngle

\* C10: every pixel read of cleanPoints for a candidate of the scan, and of
\* computeOrientationHist for a keypoint that passes the window test, is
\* inside the image read, whatever the shape of the image.
C10_ReadsInside == ~ oob

====
